---- MODULE Spec2Model ----
(***************************************************************************)
(* Verity: the two-stage research pipeline (runResearch, called by the     *)
(* App's handleSubmit), the live voice session (useLive) and the report    *)
(* merge that folds the fragments of live tool calls into the displayed    *)
(* report.                                                                 *)
(*                                                                         *)
(* Two specifications share the variables:                                 *)
(*   SpecResearch  App.handleSubmit + runResearch (src/App.tsx,            *)
(*                 src/services/geminiService.ts)                          *)
(*   SpecLive      useLive's session callbacks (src/hooks/useLive.ts) and  *)
(*                 the report merge behind onDataUpdate                    *)
(***************************************************************************)
EXTENDS Integers, Sequences, FiniteSets, TLC

VARIABLES
    \* ---- App state (src/App.tsx:8-12) ----
    query,            \* useState('')
    depth,            \* useState<ResearchDepth>('standard')
    loading,          \* useState(false)
    result,           \* useState<VerityResponse | null>(null): the displayed report
    error,            \* useState<string | null>(null)
    \* ---- runResearch invocations ----
    apiKey,           \* module constant of geminiService.ts:5
    requests,         \* request number -> the state of that runResearch call
    nextReq,          \* number of the next handleSubmit that passes the query guard
    \* ---- useLive state (src/hooks/useLive.ts:77-88) ----
    connected,        \* useState(false)
    isProcessingTool, \* useState(false)
    sessionState,     \* the duplex session: idle, connecting, open, closed
    handlers,         \* message number -> the onmessage invocation handling it:
                      \* where it stands, and the calls it has yet to finish
    nextMsg,          \* number of the next server message
    toolResponses,    \* the sendToolResponse calls issued, in order
    isTalking,        \* useState(false)
    liveError,        \* useLive's error: useState<string | null>(null)
    refs,             \* which of the hook's refs hold an object (are not null)
    devices,          \* the audio contexts, the microphone stream, and whether a
                      \* close of the session waits for its handshake
    playing,          \* sourcesRef: the messages whose buffer source is in the set
    viewClosed,       \* the live view was unmounted
    \* ---- report merge ----
    mergeWarnings,    \* number of MergeWarning records
    \* ---- history (observers, never read by the program) ----
    baseReport,       \* the report the live session started from
    completions,      \* the fragments of completed TARGETED_VERIFY calls, in completion order
    mergeLog,         \* one entry per onDataUpdate call: before, fragment, after
    verifyReceived,   \* number of verify_new_claim calls the session has received
    scheduled,        \* the messages whose audio was started (source.start), in order
    unended,          \* the started sources whose ended event has not been dispatched
    disconnected      \* disconnect() has returned at least once

appVars  == <<query, depth, loading, result, error>>
reqVars  == <<apiKey, requests, nextReq>>
liveVars == <<connected, isProcessingTool, sessionState, handlers, nextMsg, toolResponses>>
histVars == <<mergeWarnings, baseReport, completions, mergeLog, verifyReceived>>
audioVars == <<isTalking, liveError, refs, devices, playing, viewClosed, scheduled, unended,
               disconnected>>
vars     == <<appVars, reqVars, liveVars, histVars, audioVars>>

(***************************************************************************)
(* Bounds of the model.                                                    *)
(***************************************************************************)
MaxRequests  == 1   \* runResearch invocations per behaviour
MaxMsgs      == 2   \* server messages per live session
MaxCalls     == 2   \* function calls carried by one tool-call message
MaxToolCalls == 2   \* verify_new_claim calls per live session

\* null / undefined of the source, as a record so that it compares with reports
Null == [null |-> TRUE]

(***************************************************************************)
(* Data model (src/types.ts).  A URL is a scheme and a host; the host is a *)
(* sequence of characters so that case folding is computed, not assumed.   *)
(***************************************************************************)
Url(scheme, host) == [scheme |-> scheme, host |-> host]

ToLower(c) ==
    CASE c = "A" -> "a"
      [] c = "B" -> "b"
      [] c = "C" -> "c"
      [] c = "D" -> "d"
      [] OTHER   -> c

LowerCase(s) == [i \in DOMAIN s |-> ToLower(s[i])]

\* "case-insensitive, scheme-normalized": http and https name the same page,
\* and letter case does not matter.
NormalizeUrl(u) == LowerCase(u.host)

Source(id, url, title, type, cred) ==
    [source_id |-> id, url |-> url, title |-> title,
     source_type |-> type, credibility_score |-> cred]

ClaimSource(id, mt) ==
    [source_id |-> id, verbatim_quote |-> "quote", quote_context |-> "ctx",
     match_type |-> mt]

Claim(id, status, cited) ==
    [claim_id |-> id, claim_text |-> id, verification_status |-> status,
     confidence |-> 90, sources |-> cited, verification_chain |-> "chain"]

Summary(exec, findings, conf, gaps) ==
    [executive_summary |-> exec, key_findings |-> findings,
     confidence_overall |-> conf, gaps_identified |-> gaps]

Metadata(timestamp, nSources, nClaims, rate) ==
    [research_timestamp |-> timestamp, sources_analyzed |-> nSources,
     claims_extracted |-> nClaims, verification_rate |-> rate]

\* ---- the sources and claims the collaborators may produce ----
SrcA    == Source("s1", Url("https", <<"a">>), "A", "official", 90)
SrcB    == Source("s2", Url("https", <<"b">>), "B", "news", 70)
SrcAdup == Source("s3", Url("http",  <<"A">>), "A again", "blog", 40)   \* URL of SrcA
SrcC    == Source("s4", Url("http",  <<"c">>), "C", "academic", 80)
SrcCid1 == Source("s1", Url("https", <<"c">>), "C too", "news", 60)     \* id of SrcA
SrcD    == Source("s5", Url("https", <<"d">>), "D", "forum", 30)
SrcDdup == Source("s6", Url("http",  <<"D">>), "D again", "social", 20) \* URL of SrcD

ClaimA  == Claim("c1", "verified", <<ClaimSource("s1", "exact")>>)
ClaimB  == Claim("c2", "partial",  <<ClaimSource("s2", "semantic")>>)
ClaimF1 == Claim("c1", "verified", <<ClaimSource("s4", "exact")>>)
ClaimF2 == Claim("c1", "disputed", <<ClaimSource("s3", "contradicts")>>)
ClaimF3 == Claim("c2", "verified", <<ClaimSource("s1", "partial")>>)
\* sources the synthesis model wrote without url and title
EmptyUrl  == Url("", << >>)
SrcNoUrl1 == Source("s1", EmptyUrl, "", "news", 60)
SrcNoUrl2 == Source("s2", EmptyUrl, "", "news", 60)
SrcNoUrl4 == Source("s7", EmptyUrl, "", "blog", 30)
\* a claim whose verification_status is outside VerificationStatus
ClaimBadEnum == Claim("c9", "probably", <<ClaimSource("s1", "exact")>>)
\* a claim citing the fourth source of DocNoUrls
ClaimG    == Claim("c7", "partial", <<ClaimSource("s7", "semantic")>>)
ClaimF4 == Claim("c3", "verified", <<ClaimSource("s5", "exact")>>)


(***************************************************************************)
(* What the two collaborators may answer.                                  *)
(***************************************************************************)
\* Raw grounding metadata of a search response: a chunk is {web: {uri, title}},
\* uri "" standing for a chunk that lacks it.  Null: no grounding metadata.
Chunk(uri, title) == [web |-> [uri |-> uri, title |-> title]]

\* title "" standing for a chunk that lacks its title
RawWithChunks ==
    [webSearchQueries |-> <<"q">>,
     groundingChunks  |-> <<Chunk("https://a", "A"), Chunk("", "no uri"),
                            Chunk("https://b", "")>>]

\* grounding metadata without groundingChunks
RawNoChunks == [webSearchQueries |-> <<"q">>]

GroundingRaws == {Null, RawWithChunks, RawNoChunks}

FinishReasons == {"STOP", "SAFETY", "RECITATION", "none"}

\* searchResponse: .text ("" for no text), candidates[0].finishReason and
\* candidates[0].groundingMetadata
SearchResponse(text, finishReason, raw) ==
    [text |-> text, finishReason |-> finishReason, groundingMetadata |-> raw]

SearchResponses ==
    {SearchResponse("", fr, Null) : fr \in FinishReasons}
    \cup {SearchResponse("prose [1] [2]", fr, Null) : fr \in {"STOP", "SAFETY"}}
    \cup {SearchResponse("prose [1] [2]", "STOP", raw) : raw \in GroundingRaws}

\* A synthesis document: what JSON.parse yields for a JSON text.
Doc(q, summary, claims, sources, metadata) ==
    [query |-> q, summary |-> summary, claims |-> claims, sources |-> sources,
     metadata |-> metadata]

DocClean       == Doc("q", Summary("base summary", <<"kf1">>, 80, <<"gap">>),
                      <<ClaimA, ClaimB>>, <<SrcA, SrcB>>,
                      Metadata("t0", 2, 2, 50))
\* a document the synthesis model got wrong: its counts disagree with the
\* lists it wrote, and it lists one page twice
DocUnreconciled == Doc("q", Summary("base summary", <<"kf1">>, 80, <<"gap">>),
                       <<ClaimA>>, <<SrcA, SrcAdup>>,
                       Metadata("t0", 5, 3, 50))
\* a JSON object that lacks the claims key
DocNoClaims    == [query |-> "q", summary |-> Summary("frag", <<"kfx">>, 10, <<>>),
                   sources |-> <<SrcC>>, metadata |-> Metadata("t1", 1, 0, 0)]

\* a document whose first claim carries a verification_status outside the enum
DocBadEnum     == Doc("q", Summary("base summary", <<"kf1">>, 80, <<"gap">>),
                      <<ClaimBadEnum>>, <<SrcA>>, Metadata("t0", 1, 1, 50))
\* a well-shaped document with a top-level key the schema does not name
DocExtraKey    == ("debug" :> "x") @@ DocClean
\* a document with sources the model left without url and title: the first,
\* the second and the fourth of its list
DocNoUrls      == Doc("q", Summary("base summary", <<"kf1">>, 80, <<"gap">>),
                      <<ClaimA, ClaimG>>,
                      <<SrcNoUrl1, SrcNoUrl2, SrcC, SrcNoUrl4>>,
                      Metadata("t0", 4, 2, 50))

\* formatResponse.text: a sequence of tokens.  A JSON text is the single token
\* carrying its document; anything else is not JSON.
JsonText(doc) == << [kind |-> "json", value |-> doc] >>
EmptyText     == << >>
ProseText     == << [kind |-> "prose"] >>

\* a JSON text wrapped in a fenced code block labelled json
FencedText(doc) == << [kind |-> "fence", label |-> "json"] >> \o JsonText(doc)
                   \o << [kind |-> "fence", label |-> ""] >>

SynthDocs  == {DocClean, DocUnreconciled, DocNoClaims, DocBadEnum, DocExtraKey,
               DocNoUrls}
SynthTexts == {EmptyText, ProseText, FencedText(DocClean)}
              \cup {JsonText(d) : d \in SynthDocs}

\* messages of errors thrown by the collaborator's client ("" : no message)
ApiErrors == {"fetch failed", ""}

(***************************************************************************)
(* runResearch, src/services/geminiService.ts:10-145                       *)
(***************************************************************************)
MsgApiKey  == "API Key is missing. Please set the API_KEY environment variable."
MsgNoInfo  == "Verity could not find information on this topic. (Step 1 No Text)"
MsgSafety  == "The research was blocked due to safety content filters. (Step 1 No Text)"
MsgRecite  == "The research was blocked due to recitation of copyrighted content. (Step 1 No Text)"
MsgNoStructure == "Verity failed to structure the research data."
\* the grave accent, the character of a code fence, which a string of this
\* language cannot hold: written by its code point
Grave == "U+0060"

\* line 125: the message of the SyntaxError JSON.parse throws on text, for
\* the texts of SynthTexts that do not parse.  (For a document followed by
\* more text the message carries the length of the serialized document, which
\* the documents of this module do not have: no such text is a reply here.)
MsgSyntaxError(text) ==
    CASE text = << >>             -> "Unexpected end of JSON input"
      [] text[1].kind = "prose"   -> "Unexpected token 'H', \"Here is th\"... is not valid JSON"
      [] text[1].kind = "fence"   -> "Unexpected token '" \o Grave \o "', \""
                                     \o Grave \o Grave \o Grave
                                     \o "json\n{\"\"... is not valid JSON"
MsgUnexpected  == "An unexpected error occurred during research."

\* a pipeline that never finds the credential missing
KeyNeverMissing(key) == FALSE

\* line 15: if (!apiKey)
MissingKey(key) == key = ""

\* lines 20-23
depthInstruction(d) ==
    CASE d = "quick"    -> "Find the top 3 most relevant sources. Be concise but factual."
      [] d = "standard" -> "Analyze 5-7 distinct high-quality sources. Provide a balanced view."
      [] d = "deep"     -> "Conduct an exhaustive search (10+ sources). Cross-reference extensively and look for edge cases."
      [] OTHER          -> ""

\* a pipeline that never takes the no-text exit
TextAlwaysPresent(resp) == FALSE

\* line 61: if (!researchText)
NoResearchText(resp) == resp.text = ""

\* a pipeline that tells the safety block apart and nothing else
NoTextMessageSafetyOnly(finishReason) ==
    IF finishReason = "SAFETY" THEN MsgSafety ELSE MsgNoInfo

\* lines 64-69
NoTextMessage(finishReason) ==
    IF finishReason = "SAFETY" THEN MsgSafety
    ELSE IF finishReason = "RECITATION" THEN MsgRecite
    ELSE MsgNoInfo

\* line 125: JSON.parse(formatResponse.text)
JSONParse(text) ==
    IF Len(text) = 1 /\ text[1].kind = "json"
    THEN [ok |-> TRUE, value |-> text[1].value]
    ELSE [ok |-> FALSE]

\* line 76: groundingMetadataRaw?.groundingChunks || [], the raw grounding
\* records handed to the synthesis prompt
GroundingRecords(raw) ==
    IF raw = Null \/ "groundingChunks" \notin DOMAIN raw THEN << >>
    ELSE raw.groundingChunks

\* line 132: chunk.web?.title || "Unknown Source"
SourceTitle(chunk) == IF chunk.web.title = "" THEN "Unknown Source" ELSE chunk.web.title

\* a trace that lists every chunk, with or without uri
WebSourcesUnfiltered(raw) ==
    [i \in DOMAIN GroundingRecords(raw) |->
        [uri   |-> GroundingRecords(raw)[i].web.uri,
         title |-> SourceTitle(GroundingRecords(raw)[i])]]

\* lines 130-133: the grounding trace, [] without metadata or without chunks
WebSources(raw) ==
    IF raw = Null \/ "groundingChunks" \notin DOMAIN raw THEN << >>
    ELSE LET mapped == [i \in DOMAIN raw.groundingChunks |->
                          [uri   |-> raw.groundingChunks[i].web.uri,
                           title |-> SourceTitle(raw.groundingChunks[i])]]
         IN SelectSeq(mapped, LAMBDA s : s.uri # "")

\* lines 77 and 128-134
finalGroundingMetadata(raw) ==
    [searchQueries |-> IF raw = Null \/ "webSearchQueries" \notin DOMAIN raw
                       THEN << >> ELSE raw.webSearchQueries,
     webSources    |-> WebSources(raw)]

\* the url a grounding record's uri string denotes
ParseUri(uri) ==
    CASE uri = "https://a" -> Url("https", <<"a">>)
      [] uri = "https://b" -> Url("https", <<"b">>)
      [] OTHER             -> EmptyUrl

\* a pipeline that gives every source without url the first record's url
ReturnValueGuessingUrls(structuredData, raw) ==
    LET fill(src) == IF src.url = EmptyUrl
                     THEN [src EXCEPT !.url = ParseUri(GroundingRecords(raw)[1].web.uri)]
                     ELSE src
    IN ("groundingMetadata" :> finalGroundingMetadata(raw)) @@
       (IF "sources" \in DOMAIN structuredData /\ GroundingRecords(raw) # << >>
        THEN [structuredData EXCEPT
                !.sources = [i \in DOMAIN structuredData.sources |->
                                fill(structuredData.sources[i])]]
        ELSE structuredData)

\* a pipeline that drops every source without url
ReturnValueDroppingEmptyUrls(structuredData, raw) ==
    ("groundingMetadata" :> finalGroundingMetadata(raw)) @@
    (IF "sources" \in DOMAIN structuredData
     THEN [structuredData EXCEPT
             !.sources = SelectSeq(structuredData.sources, LAMBDA src : src.url # EmptyUrl)]
     ELSE structuredData)

\* lines 136-139: {...structuredData, groundingMetadata: finalGroundingMetadata}
ReturnValue(structuredData, raw) ==
    ("groundingMetadata" :> finalGroundingMetadata(raw)) @@ structuredData


(***************************************************************************)
(* App.handleSubmit and the steps of the runResearch call it makes.        *)
(* A runResearch call suspends at its two awaits (lines 42 and 107); what  *)
(* runs between two awaits runs to completion and is one action, together  *)
(* with the continuation of handleSubmit (src/App.tsx:22-29) when the call *)
(* settles.                                                                *)
(***************************************************************************)
Queries == {"", " ", "q1"}
Depths  == {"quick", "standard", "deep"}

\* query.trim() over Queries
Trim(q) == IF q = " " THEN "" ELSE q

IdleRequest ==
    [pc |-> "IDLE", depthInstruction |-> "", trace |-> << >>,
     search |-> Null, message |-> "", value |-> Null]

\* the error state of the App: null, or the message shown
ErrorState(msg) == [message |-> msg]

\* src/App.tsx:25-28: catch (err) { setError(err.message || ...) } finally { setLoading(false) }
\* after runResearch call r rejected with an error whose message is msg
RequestFails(r, msg, events, resp) ==
    /\ requests' = [requests EXCEPT ![r].pc = "FAILED", ![r].message = msg,
                                    ![r].trace = @ \o events, ![r].search = resp]
    /\ error' = ErrorState(IF msg = "" THEN MsgUnexpected ELSE msg)
    /\ loading' = FALSE

\* src/App.tsx:14-23 up to the suspension at line 23, with
\* geminiService.ts:15-55: runResearch either rejects at once (missing key,
\* pc REJECTED, the catch of the App still to run) or issues the search call
handleSubmit ==
    IF Trim(query) = ""
    THEN UNCHANGED <<appVars, reqVars>>                      \* line 16: return
    ELSE /\ nextReq \in DOMAIN requests
         /\ nextReq' = nextReq + 1
         /\ result' = Null
         /\ UNCHANGED <<query, depth, apiKey>>
         /\ error' = Null
         /\ loading' = TRUE
         /\ IF MissingKey(apiKey)
            THEN \* geminiService.ts:15-17 throws before any request
                 requests' = [requests EXCEPT ![nextReq] =
                        [IdleRequest EXCEPT !.pc = "REJECTED", !.message = MsgApiKey]]
            ELSE \* the search request is issued (line 42)
                 requests' = [requests EXCEPT ![nextReq] =
                        [IdleRequest EXCEPT !.pc = "SEARCHING",
                                            !.depthInstruction = depthInstruction(depth),
                                            !.trace = <<"search_call">>]]

\* src/App.tsx:23-29: the rejection of request r, thrown at
\* geminiService.ts:15-17, reaches the catch and the finally of handleSubmit
KeyErrorCaught(r) ==
    /\ requests[r].pc = "REJECTED"
    /\ RequestFails(r, requests[r].message, << >>, Null)
    /\ UNCHANGED <<query, depth, result, apiKey, nextReq, liveVars, histVars, audioVars>>

\* src/App.tsx:70 onChange
SetQuery(q) ==
    /\ query' = q
    /\ UNCHANGED <<depth, loading, result, error, reqVars, liveVars, histVars, audioVars>>

\* src/App.tsx:87 onClick={() => setDepth(d)}
SetDepth(d) ==
    /\ depth' = d
    /\ UNCHANGED <<query, loading, result, error, reqVars, liveVars, histVars, audioVars>>

\* src/App.tsx:99-101: the submit button, disabled while loading or without a query
ClickVerify ==
    /\ ~(loading \/ Trim(query) = "")
    /\ handleSubmit
    /\ UNCHANGED <<liveVars, histVars, audioVars>>

\* src/App.tsx:73-78: Enter in the query box calls handleSubmit directly
PressEnter ==
    /\ handleSubmit
    /\ UNCHANGED <<liveVars, histVars, audioVars>>

\* src/App.tsx:164 Dismiss
DismissError ==
    /\ error # Null
    /\ error' = Null
    /\ UNCHANGED <<query, depth, loading, result, reqVars, liveVars, histVars, audioVars>>

\* geminiService.ts:57-119: the search call of request r returned resp
SearchReturns(r, resp) ==
    /\ requests[r].pc = "SEARCHING"
    /\ IF NoResearchText(resp)
       THEN /\ RequestFails(r, NoTextMessage(resp.finishReason), <<"search_notext">>, resp)
            /\ UNCHANGED result
       ELSE /\ requests' = [requests EXCEPT ![r].pc = "SYNTHESIZING",
                                ![r].search = resp,
                                ![r].trace = @ \o <<"search_text", "synth_call">>]
            /\ UNCHANGED <<loading, result, error>>
    /\ UNCHANGED <<query, depth, apiKey, nextReq, liveVars, histVars, audioVars>>


\* geminiService.ts:141-144: the search call of request r threw an error
SearchThrows(r, msg) ==
    /\ requests[r].pc = "SEARCHING"
    /\ RequestFails(r, msg, <<"search_error">>, Null)
    /\ UNCHANGED <<query, depth, result, apiKey, nextReq, liveVars, histVars, audioVars>>

\* geminiService.ts:121-139 and src/App.tsx:24,28: the synthesis call of
\* request r returned text
SynthReturns(r, text) ==
    /\ requests[r].pc = "SYNTHESIZING"
    /\ IF text = EmptyText
       THEN /\ RequestFails(r, MsgNoStructure, <<"synth_reply">>, requests[r].search)
            /\ UNCHANGED result
       ELSE IF ~JSONParse(text).ok
       THEN /\ RequestFails(r, MsgSyntaxError(text), <<"synth_reply">>, requests[r].search)
            /\ UNCHANGED result
       ELSE LET data == ReturnValue(JSONParse(text).value,
                                    requests[r].search.groundingMetadata)
            IN /\ requests' = [requests EXCEPT ![r].pc = "DONE", ![r].value = data,
                                               ![r].trace = @ \o <<"synth_reply">>]
               /\ result' = data
               /\ loading' = FALSE
               /\ UNCHANGED error
    /\ UNCHANGED <<query, depth, apiKey, nextReq, liveVars, histVars, audioVars>>

\* geminiService.ts:141-144: the synthesis call of request r threw an error
SynthThrows(r, msg) ==
    /\ requests[r].pc = "SYNTHESIZING"
    /\ RequestFails(r, msg, <<"synth_error">>, requests[r].search)
    /\ UNCHANGED <<query, depth, result, apiKey, nextReq, liveVars, histVars, audioVars>>

\* src/hooks/useLive.ts:82-88: every ref starts null (sourcesRef is playing)
NoRefs ==
    [audioContextRef |-> FALSE, inputContextRef |-> FALSE, scriptProcessorRef |-> FALSE,
     streamRef |-> FALSE, sessionRef |-> FALSE]

\* no audio context and no microphone stream exists
NoDevices ==
    [inputCtx |-> "none", outputCtx |-> "none", stream |-> "none", closePending |-> FALSE]

\* an onmessage invocation: pc is none (no such message yet), await (at line
\* 188), decode (at line 223), done or threw; calls are the function calls it
\* has yet to finish; audio and interrupted tell what else the message carries
NoHandler   == [pc |-> "none", calls |-> << >>, audio |-> FALSE, interrupted |-> FALSE]
DoneHandler == [pc |-> "done", calls |-> << >>, audio |-> FALSE, interrupted |-> FALSE]

\* the live session at rest: no session, no handler, nothing merged
LiveIdle ==
    /\ connected = FALSE
    /\ isProcessingTool = FALSE
    /\ sessionState = "idle"
    /\ handlers = [m \in 1..MaxMsgs |-> NoHandler]
    /\ nextMsg = 1
    /\ toolResponses = << >>
    /\ mergeWarnings = 0
    /\ completions = << >>
    /\ mergeLog = << >>
    /\ verifyReceived = 0
    /\ isTalking = FALSE
    /\ liveError = Null
    /\ refs = NoRefs
    /\ devices = NoDevices
    /\ playing = {}
    /\ viewClosed = FALSE
    /\ scheduled = << >>
    /\ unended = {}
    /\ disconnected = FALSE

InitResearch ==
    /\ query = ""
    /\ depth = "standard"
    /\ loading = FALSE
    /\ result = Null
    /\ error = Null
    /\ apiKey \in {"", "key"}
    /\ requests = [r \in 1..MaxRequests |-> IdleRequest]
    /\ nextReq = 1
    /\ LiveIdle
    /\ baseReport = Null

NextResearch ==
    \/ \E q \in Queries : SetQuery(q)
    \/ \E d \in Depths : SetDepth(d)
    \/ ClickVerify
    \/ PressEnter
    \/ DismissError
    \/ \E r \in DOMAIN requests : KeyErrorCaught(r)
    \/ \E r \in DOMAIN requests, resp \in SearchResponses : SearchReturns(r, resp)
    \/ \E r \in DOMAIN requests, msg \in ApiErrors : SearchThrows(r, msg)
    \/ \E r \in DOMAIN requests, text \in SynthTexts : SynthReturns(r, text)
    \/ \E r \in DOMAIN requests, msg \in ApiErrors : SynthThrows(r, msg)

SpecResearch == InitResearch /\ [][NextResearch]_vars

\* runResearch is exported and its depth parameter is a string at run time:
\* the depth values a caller may hand it, the three of ResearchDepth and others
DepthInputs == Depths \cup {"exhaustive", ""}

InitAnyDepth ==
    /\ query = ""
    /\ depth \in DepthInputs
    /\ loading = FALSE
    /\ result = Null
    /\ error = Null
    /\ apiKey \in {"", "key"}
    /\ requests = [r \in 1..MaxRequests |-> IdleRequest]
    /\ nextReq = 1
    /\ LiveIdle
    /\ baseReport = Null

SpecAnyDepth == InitAnyDepth /\ [][NextResearch]_vars

\* the App with room for one more runResearch call than SpecResearch gives
\* it, so that a submit made while a request is pending can be told apart
MaxOverlap == MaxRequests + 1

InitOverlap ==
    /\ query = ""
    /\ depth = "standard"
    /\ loading = FALSE
    /\ result = Null
    /\ error = Null
    /\ apiKey \in {"", "key"}
    /\ requests = [r \in 1..MaxOverlap |-> IdleRequest]
    /\ nextReq = 1
    /\ LiveIdle
    /\ baseReport = Null

SpecOverlap == InitOverlap /\ [][NextResearch]_vars


(***************************************************************************)
(* Claims about runResearch, checked under SpecResearch.                   *)
(***************************************************************************)
Count(seq, x) == Cardinality({i \in DOMAIN seq : seq[i] = x})

\* the collaborator calls a request has issued so far
SearchCalls(r) == Count(requests[r].trace, "search_call")
SynthCalls(r)  == Count(requests[r].trace, "synth_call")

\* C9: in every run of a research request the synthesis collaborator is
\* invoked only after the search collaborator has returned non-empty prose
\* (never before the search, never while it is pending), and each of the two
\* collaborators is invoked at most once per request.
C9_SynthesisAfterSearch ==
    \A r \in 1..MaxRequests :
        LET t == requests[r].trace IN
        /\ SearchCalls(r) <= 1
        /\ SynthCalls(r) <= 1
        /\ \A i \in DOMAIN t :
              t[i] = "synth_call" =>
                  /\ i = 3
                  /\ t[1] = "search_call"
                  /\ t[2] = "search_text"
                  /\ requests[r].search # Null
                  /\ requests[r].search.text # ""
        /\ requests[r].pc = "SEARCHING" => SynthCalls(r) = 0
        /\ requests[r].pc \in {"SYNTHESIZING", "DONE"} => SynthCalls(r) = 1

\* a request whose synthesis was invoked, after a search that returned prose
C9_Witness ==
    \E r \in 1..MaxRequests :
        /\ requests[r].pc = "DONE"
        /\ requests[r].trace = <<"search_call", "search_text", "synth_call", "synth_reply">>

\* the cause of a search response without text
NoTextCause(resp) ==
    IF resp.finishReason \in {"SAFETY", "RECITATION"} THEN resp.finishReason
    ELSE "empty"

\* the search call of request r has returned a response
SearchAnswered(r) == requests[r].search # Null

\* C10 as stated: a search response without usable text, or one that signals a
\* SAFETY or RECITATION block, moves the request to FAILED with a message
\* specific to the cause, without any synthesis call and without a retry.
C10_Original ==
    \A r \in 1..MaxRequests :
        (SearchAnswered(r) /\ (requests[r].search.text = ""
                               \/ requests[r].search.finishReason \in {"SAFETY", "RECITATION"}))
        => /\ requests[r].pc = "FAILED"
           /\ SynthCalls(r) = 0
           /\ SearchCalls(r) = 1

\* C10, amended: a search response without text moves the request
\* SEARCHING -> FAILED, whatever its finish reason; the error message is the
\* safety message for SAFETY, the recitation message for RECITATION and the
\* generic one otherwise, three different messages; the synthesis
\* collaborator is never invoked and the search is not issued again.  (A
\* block signal that comes with text does not fail the request.)
C10_NoTextFails ==
    /\ Cardinality({MsgSafety, MsgRecite, MsgNoInfo}) = 3
    /\ \A r \in 1..MaxRequests :
        (SearchAnswered(r) /\ requests[r].search.text = "")
        => /\ requests[r].pc = "FAILED"
           /\ requests[r].trace = <<"search_call", "search_notext">>
           /\ SynthCalls(r) = 0
           /\ SearchCalls(r) = 1
           /\ requests[r].value = Null
           /\ LET cause == NoTextCause(requests[r].search) IN
              /\ cause = "SAFETY"     => requests[r].message = MsgSafety
              /\ cause = "RECITATION" => requests[r].message = MsgRecite
              /\ cause = "empty"      => requests[r].message = MsgNoInfo

\* a request failed by a search response that had no text and signalled RECITATION
C10_Witness ==
    \E r \in 1..MaxRequests :
        /\ SearchAnswered(r)
        /\ requests[r].search.text = ""
        /\ requests[r].search.finishReason = "RECITATION"
        /\ requests[r].pc = "FAILED"
        /\ error = ErrorState(MsgRecite)


(***************************************************************************)
(* Claims about the synthesis stage of runResearch.                        *)
(***************************************************************************)
\* src/types.ts:2-4
VerificationStatuses == {"verified", "partial", "unverified", "disputed", "gap"}
MatchTypes  == {"exact", "semantic", "partial", "contradicts"}
SourceTypes == {"official", "academic", "news", "blog", "forum", "social", "unknown"}

\* src/types.ts:73-85: the required keys of VerityResponse
ExpectedShape(doc) ==
    {"query", "summary", "claims", "sources", "metadata"} \subseteq DOMAIN doc

EnumsValid(doc) ==
    /\ \A i \in DOMAIN doc.claims :
          /\ doc.claims[i].verification_status \in VerificationStatuses
          /\ \A j \in DOMAIN doc.claims[i].sources :
                doc.claims[i].sources[j].match_type \in MatchTypes
    /\ \A i \in DOMAIN doc.sources : doc.sources[i].source_type \in SourceTypes

\* a synthesis reply that is empty, is not JSON, or is JSON of another shape
UnusableSynthText(text) ==
    \/ text = EmptyText
    \/ ~JSONParse(text).ok
    \/ ~ExpectedShape(JSONParse(text).value)

\* C11: when the synthesis collaborator returns an empty response or text
\* that does not parse as JSON of the expected shape, the request moves to
\* FAILED: no report is returned, the synthesis is not retried, and the
\* research prose is not what the user is shown.
C11_UnusableSynthesisFails ==
    [][ \A r \in 1..MaxRequests, text \in SynthTexts :
          (SynthReturns(r, text) /\ UnusableSynthText(text))
          => /\ requests'[r].pc = "FAILED"
             /\ requests'[r].value = Null
             /\ result' = Null
             /\ error' # Null
             /\ error'.message # requests[r].search.text
             /\ Count(requests'[r].trace, "synth_call") = 1
             /\ Count(requests'[r].trace, "search_call") = 1
      ]_vars

\* C12: a synthesis document with the expected keys whose verification_status,
\* match_type or source_type holds a value outside its enum ends the request
\* in FAILED with no report; one whose enum values are all valid reaches DONE,
\* extra top-level keys or not.
C12_OutOfEnumFails ==
    [][ \A r \in 1..MaxRequests, text \in SynthTexts :
          (SynthReturns(r, text) /\ JSONParse(text).ok
             /\ ExpectedShape(JSONParse(text).value))
          => IF EnumsValid(JSONParse(text).value)
             THEN requests'[r].pc = "DONE"
             ELSE requests'[r].pc = "FAILED" /\ result' = Null
      ]_vars

\* C13: a synthesis reply that is a valid JSON document wrapped in a fenced
\* code block labelled json reaches DONE with the report the unwrapped
\* document gives.
C13_FencedJsonAccepted ==
    [][ \A r \in 1..MaxRequests, d \in SynthDocs :
          (FencedText(d) \in SynthTexts /\ ExpectedShape(d)
             /\ SynthReturns(r, FencedText(d)))
          => /\ requests'[r].pc = "DONE"
             /\ requests'[r].value = ReturnValue(d, requests[r].search.groundingMetadata)
             /\ result' = requests'[r].value
      ]_vars

\* C14: the report of a request that reached DONE has sources_analyzed equal
\* to the number of its sources and claims_extracted equal to the number of
\* its claims.
C14_DoneCountsMatchLists ==
    \A r \in 1..MaxRequests :
        (requests[r].pc = "DONE" /\ ExpectedShape(requests[r].value))
        => LET v == requests[r].value IN
           /\ v.metadata.sources_analyzed = Len(v.sources)
           /\ v.metadata.claims_extracted = Len(v.claims)

\* C15: no search request is issued with an empty thoroughness instruction:
\* a depth other than quick, standard or deep fails the request before the
\* search.
C15_UnknownDepthFailsFast ==
    \A r \in 1..MaxRequests :
        /\ SearchCalls(r) > 0 => requests[r].depthInstruction # ""
        /\ requests[r].pc \in {"SEARCHING", "SYNTHESIZING", "DONE"}
               => requests[r].depthInstruction \in {depthInstruction(d) : d \in Depths}

\* C16: with the credential missing, a request fails at once with the
\* configuration error and issues no call to the search or the synthesis
\* collaborator.
C16_MissingKeyFailsWithoutRequest ==
    apiKey = "" =>
        \A r \in 1..MaxRequests :
            /\ requests[r].pc \in {"IDLE", "REJECTED", "FAILED"}
            /\ requests[r].trace = << >>
            /\ requests[r].value = Null
            /\ requests[r].pc # "IDLE" => requests[r].message = MsgApiKey
            /\ requests[r].pc = "FAILED" => error = ErrorState(MsgApiKey) \/ error = Null
            /\ result = Null
            /\ loading => \E q \in 1..MaxRequests : requests[q].pc = "REJECTED"

\* a request was submitted without the credential and failed
C16_Witness ==
    /\ apiKey = ""
    /\ requests[1].pc = "FAILED"
    /\ requests[1].trace = << >>
    /\ error = ErrorState(MsgApiKey)

(***************************************************************************)
(* Claims about the reconciliation of citations.  The pipeline hands the   *)
(* raw grounding records to the synthesis model with the instruction that  *)
(* marker [k] is the k-th record (geminiService.ts:93-100) and returns the *)
(* sources the model wrote (125-139); the k-th synthesized source is the   *)
(* one cited as [k].                                                       *)
(***************************************************************************)
\* the synthesis reply is a document the pipeline accepts as a report
UsableSynthText(text) ==
    /\ JSONParse(text).ok
    /\ ExpectedShape(JSONParse(text).value)
    /\ EnumsValid(JSONParse(text).value)

\* record k exists and carries a uri
HasRecord(records, k) == k \in DOMAIN records /\ records[k].web.uri # ""

\* C17: a synthesized source that came without url, cited as [k] with
\* 1 <= k <= len(raw_grounding_records), appears in the returned sources
\* with its source_id and the url and title of raw_grounding_records[k-1].
C17_EmptyUrlBackfilled ==
    [][ \A r \in 1..MaxRequests, text \in SynthTexts :
          (SynthReturns(r, text) /\ UsableSynthText(text))
          => LET doc     == JSONParse(text).value
                 records == GroundingRecords(requests[r].search.groundingMetadata)
             IN \A k \in DOMAIN doc.sources :
                   (doc.sources[k].url = EmptyUrl /\ HasRecord(records, k))
                   => /\ requests'[r].pc = "DONE"
                      /\ \E j \in DOMAIN requests'[r].value.sources :
                            LET out == requests'[r].value.sources[j] IN
                            /\ out.source_id = doc.sources[k].source_id
                            /\ out.url = ParseUri(records[k].web.uri)
                            /\ out.title = records[k].web.title
      ]_vars

\* C18: a synthesized source whose marker [k] is out of range or has no
\* grounding record does not make the request fail and gets no other
\* record's url: the returned list holds the entry as the model wrote it, or
\* with only its source_type set to unknown.
C18_UnmatchedMarkerLeftAlone ==
    [][ \A r \in 1..MaxRequests, text \in SynthTexts :
          (SynthReturns(r, text) /\ UsableSynthText(text))
          => LET doc     == JSONParse(text).value
                 records == GroundingRecords(requests[r].search.groundingMetadata)
             IN /\ requests'[r].pc = "DONE"
                /\ \A k \in DOMAIN doc.sources :
                      (records # << >> /\ ~HasRecord(records, k))
                      => \E j \in DOMAIN requests'[r].value.sources :
                            requests'[r].value.sources[j] \in
                                {doc.sources[k],
                                 [doc.sources[k] EXCEPT !.source_type = "unknown"]}
      ]_vars

\* a report was returned for three grounding records and a document whose
\* second source has a record without uri and whose fourth has no record
C18_Witness ==
    \E r \in 1..MaxRequests :
        /\ requests[r].pc = "DONE"
        /\ Len(GroundingRecords(requests[r].search.groundingMetadata)) = 3
        /\ ~HasRecord(GroundingRecords(requests[r].search.groundingMetadata), 2)
        /\ Len(requests[r].value.sources) = 4
        /\ requests[r].value.sources[4] = SrcNoUrl4

\* C19: when grounding records exist, every entry of the returned sources
\* list has a non-empty url (an entry still without url is dropped).
C19_NoEmptyUrlReturned ==
    \A r \in 1..MaxRequests :
        (/\ requests[r].pc = "DONE"
         /\ ExpectedShape(requests[r].value)
         /\ GroundingRecords(requests[r].search.groundingMetadata) # << >>)
        => \A i \in DOMAIN requests[r].value.sources :
              requests[r].value.sources[i].url # EmptyUrl

\* C20: with no grounding record, the returned sources are the synthesized
\* sources unchanged (entries, order and field values, empty urls included)
\* and the request reaches DONE with a report.
C20_NoRecordsPassThrough ==
    [][ \A r \in 1..MaxRequests, text \in SynthTexts :
          (/\ SynthReturns(r, text)
           /\ UsableSynthText(text)
           /\ GroundingRecords(requests[r].search.groundingMetadata) = << >>)
          => /\ requests'[r].pc = "DONE"
             /\ requests'[r].value.sources = JSONParse(text).value.sources
             /\ requests'[r].value.claims = JSONParse(text).value.claims
             /\ result' = requests'[r].value
      ]_vars

\* a report whose sources lack urls was returned for a search without
\* grounding records
C20_Witness ==
    \E r \in 1..MaxRequests :
        /\ requests[r].pc = "DONE"
        /\ GroundingRecords(requests[r].search.groundingMetadata) = << >>
        /\ requests[r].value.sources = DocNoUrls.sources
        /\ result = requests[r].value

(***************************************************************************)
(* The grounding trace.                                                    *)
(***************************************************************************)
\* the number of chunks with a uri among the first k
KeptUpTo(chunks, k) ==
    Cardinality({j \in 1..k : chunks[j].web.uri # ""})

\* C21: the webSources of a finished report are the grounding chunks that
\* have a non-empty web uri, in their original order: no entry has an empty
\* uri, and without grounding metadata the list is empty and the request
\* still finishes.
C21_TraceFiltersEmptyUris ==
    \A r \in DOMAIN requests :
        requests[r].pc = "DONE" =>
        LET chunks == GroundingRecords(requests[r].search.groundingMetadata)
            ws     == requests[r].value.groundingMetadata.webSources
        IN /\ \A i \in DOMAIN ws : ws[i].uri # ""
           /\ Len(ws) = KeptUpTo(chunks, Len(chunks))
           /\ \A k \in DOMAIN chunks :
                 chunks[k].web.uri # "" =>
                    /\ ws[KeptUpTo(chunks, k)].uri = chunks[k].web.uri
                    /\ ws[KeptUpTo(chunks, k)].title = SourceTitle(chunks[k])
           /\ requests[r].search.groundingMetadata \in {Null, RawNoChunks} => ws = << >>

\* a report was returned for three chunks of which the second has no uri
\* and the third no title
C21_Witness ==
    \E r \in DOMAIN requests :
        /\ requests[r].pc = "DONE"
        /\ Len(GroundingRecords(requests[r].search.groundingMetadata)) = 3
        /\ Len(requests[r].value.groundingMetadata.webSources) = 2
        /\ requests[r].value.groundingMetadata.webSources[2].uri = "https://b"
        /\ requests[r].value.groundingMetadata.webSources[2].title = "Unknown Source"

(***************************************************************************)
(* The App's request flow, checked under SpecOverlap.                      *)
(***************************************************************************)
\* the requests whose runResearch promise handleSubmit still awaits
InFlight ==
    {r \in DOMAIN requests : requests[r].pc \in {"REJECTED", "SEARCHING", "SYNTHESIZING"}}

\* the most recently submitted request
LastSubmitted == nextReq - 1

\* C30: at most one research request is in flight at a time, loading is true
\* exactly while a request is pending, and once none is pending result and
\* error are not both set and what is set belongs to the most recently
\* submitted request.
C30_SingleRequestInFlight ==
    /\ Cardinality(InFlight) <= 1
    /\ loading <=> InFlight # {}
    /\ (InFlight = {} /\ LastSubmitted >= 1) =>
          /\ ~(result # Null /\ error # Null)
          /\ result # Null => /\ requests[LastSubmitted].pc = "DONE"
                              /\ result = requests[LastSubmitted].value
          /\ error # Null => requests[LastSubmitted].pc = "FAILED"

(***************************************************************************)
(* The Report Merger: merge(base, fragment), the operation behind the      *)
(* onDataUpdate callback that useLive.ts:191-193 invokes.                  *)
(***************************************************************************)
RequiredFields == {"claims", "sources", "summary"}

\* a fragment with every field the merge reads
WellFormed(fragment) ==
    /\ RequiredFields \subseteq DOMAIN fragment
    /\ "key_findings" \in DOMAIN fragment.summary

\* some entry of list has the URL of source s, up to normalization
UrlPresent(list, s) ==
    \E i \in DOMAIN list : NormalizeUrl(list[i].url) = NormalizeUrl(s.url)

\* a merge that appends every incoming source
AppendedSourcesAll(base, fragment) == fragment.sources

\* the incoming sources that are appended: those whose URL matches no
\* existing entry of base
AppendedSources(base, fragment) ==
    SelectSeq(fragment.sources, LAMBDA s : ~UrlPresent(base.sources, s))

\* a merge that lets the fragment's executive summary replace the base's
mergeOverwritingSummary(base, fragment) ==
    IF ~WellFormed(fragment)
    THEN base
    ELSE [base EXCEPT
            !.claims  = @ \o fragment.claims,
            !.sources = @ \o AppendedSources(base, fragment),
            !.summary.key_findings = @ \o fragment.summary.key_findings,
            !.summary.executive_summary = fragment.summary.executive_summary,
            !.metadata.claims_extracted = @ + Len(fragment.claims),
            !.metadata.sources_analyzed = @ + Len(AppendedSources(base, fragment))]

merge(base, fragment) ==
    IF ~WellFormed(fragment)
    THEN base        \* the fragment is discarded
    ELSE [base EXCEPT
            !.claims  = @ \o fragment.claims,
            !.sources = @ \o AppendedSources(base, fragment),
            !.summary.key_findings = @ \o fragment.summary.key_findings,
            !.metadata.claims_extracted = @ + Len(fragment.claims),
            !.metadata.sources_analyzed = @ + Len(AppendedSources(base, fragment))]

\* the warnings a merge records: one for a discarded fragment
MergeWarning(fragment) == IF WellFormed(fragment) THEN 0 ELSE 1

(***************************************************************************)
(* TARGETED_VERIFY: performTargetedResearch(query) runs the pipeline for   *)
(* one follow-up query and yields what the pipeline returns for the        *)
(* synthesis document it got, or throws.                                   *)
(***************************************************************************)
FragSummary(findings) == Summary("fragment summary", findings, 60, <<"fragment gap">>)

FragNew     == Doc("fq", FragSummary(<<"kf2">>), <<ClaimF1>>, <<SrcC>>,
                   Metadata("t1", 1, 1, 100))
FragDupUrl  == Doc("fq", FragSummary(<<"kf3">>), <<ClaimF2>>, <<SrcAdup>>,
                   Metadata("t1", 1, 1, 0))
FragSameId  == Doc("fq", FragSummary(<<"kf4">>), <<ClaimF3>>, <<SrcCid1>>,
                   Metadata("t1", 1, 1, 100))
FragTwoSame == Doc("fq", FragSummary(<<"kf5">>), <<ClaimF4>>, <<SrcD, SrcDdup>>,
                   Metadata("t1", 2, 1, 100))

FragmentDocs == {FragNew, FragDupUrl, FragSameId, FragTwoSame, DocNoClaims}

Fragments == {ReturnValue(d, Null) : d \in FragmentDocs}

\* the reports a finished research request hands to the live discussion
BaseReports ==
    {ReturnValue(d, raw) : d \in {DocClean, DocUnreconciled}, raw \in {RawWithChunks}}

(***************************************************************************)
(* useLive: the session callbacks, src/hooks/useLive.ts:159-251            *)
(***************************************************************************)
ToolNames == {"verify_new_claim", "other_tool"}

\* the function calls a tool-call message may carry: call i of message m has
\* id (m-1)*MaxCalls + i
CallLists ==
    UNION { [1..n -> ToolNames] : n \in 0..MaxCalls }

FunctionCalls(m, names) ==
    [i \in DOMAIN names |-> [id |-> (m - 1) * MaxCalls + i, name |-> names[i]]]

\* lines 182-183: the loop passes over the calls that are not verify_new_claim;
\* what is left starts with the next call to execute, or is empty
RECURSIVE SkipOthers(_)
SkipOthers(calls) ==
    IF calls = << >> THEN << >>
    ELSE IF Head(calls).name = "verify_new_claim" THEN calls
    ELSE SkipOthers(Tail(calls))

VerifyCount(calls) ==
    Cardinality({i \in DOMAIN calls : calls[i].name = "verify_new_claim"})

\* x?.field of the source: <<value>>, or << >> for undefined
Opt(rec, field) == IF field \in DOMAIN rec THEN <<rec[field]>> ELSE << >>

\* a summary written without optional chaining: reading the length of a
\* missing list throws
toolResponseNoChaining(res) ==
    [claims   |-> IF "claims" \in DOMAIN res THEN <<Len(res.claims)>> ELSE << >>,
     sources  |-> IF "sources" \in DOMAIN res THEN <<Len(res.sources)>> ELSE << >>,
     summary  |-> IF "summary" \in DOMAIN res
                  THEN Opt(res.summary, "executive_summary") ELSE << >>,
     topFact  |-> IF "claims" \in DOMAIN res /\ Len(res.claims) > 0
                  THEN Opt(res.claims[1], "claim_text") ELSE << >>,
     threw    |-> ~({"claims", "sources"} \subseteq DOMAIN res)]

\* lines 196-200: the summary of the result sent back to the model; every
\* field is read with ?. but result itself is not
toolResponse(res) ==
    [claims   |-> IF "claims" \in DOMAIN res THEN <<Len(res.claims)>> ELSE << >>,
     sources  |-> IF "sources" \in DOMAIN res THEN <<Len(res.sources)>> ELSE << >>,
     summary  |-> IF "summary" \in DOMAIN res
                  THEN Opt(res.summary, "executive_summary") ELSE << >>,
     topFact  |-> IF "claims" \in DOMAIN res /\ Len(res.claims) > 0
                  THEN Opt(res.claims[1], "claim_text") ELSE << >>,
     threw    |-> res = Null]      \* line 197: result.claims of null throws

\* lines 190-193: if (onDataUpdate && result) onDataUpdate(result)
onDataUpdate(report, res) == merge(report, res)


\* a callback that merges into the report the session started with
DeliverResultIntoFirstReport(report, res) ==
    IF res # Null THEN onDataUpdate(baseReport, res) ELSE report

\* a callback that drops what it is handed
DeliverNothing(report, res) == report

\* lines 190-193: the result of a completed call is handed to the data-update
\* callback, which replaces the displayed report by the merged one
DeliverResult(report, res) ==
    IF res # Null THEN onDataUpdate(report, res) ELSE report

\* messages of the errors connect() can catch ("" : no message)
ConnectErrors == {"Permission denied", "Requested device not found", ""}

\* line 256: err.message || "Failed to start live session"
CatchMessage(msg) == IF msg = "" THEN "Failed to start live session" ELSE msg

\* lines 120-133: the live view mounts and calls connect(), which creates
\* the two audio contexts and waits for the microphone
Connect ==
    /\ devices.inputCtx = "none"
    /\ sessionState = "idle"
    /\ ~viewClosed
    /\ ~disconnected
    /\ liveError' = Null
    /\ devices' = [devices EXCEPT !.inputCtx = "running", !.outputCtx = "running",
                                  !.stream = "pending"]
    /\ refs' = [refs EXCEPT !.inputContextRef = TRUE, !.audioContextRef = TRUE]
    /\ UNCHANGED <<appVars, reqVars, liveVars, histVars, isTalking, playing, viewClosed,
                   scheduled, unended, disconnected>>

\* lines 133-136 and 253: getUserMedia resolves; the stream is kept, the live
\* connection is started and its promise is kept
MicGranted ==
    /\ devices.stream = "pending"
    /\ devices' = [devices EXCEPT !.stream = "live"]
    /\ refs' = [refs EXCEPT !.streamRef = TRUE, !.sessionRef = TRUE]
    /\ sessionState' = "connecting"
    /\ UNCHANGED <<appVars, reqVars, histVars, connected, isProcessingTool, handlers,
                   nextMsg, toolResponses, isTalking, liveError, playing, viewClosed,
                   scheduled, unended, disconnected>>

\* lines 90-118: the body of disconnect(), called with the refs rf for a
\* session in state st and devices dev.  s.close() (92-94) runs as soon as the
\* session promise is resolved: at once for an open session, which is then
\* closing until its close event, and after the handshake for one still
\* connecting.
DisconnectBody(st, dev, rf) ==
    /\ sessionState' = IF rf.sessionRef /\ st = "open" THEN "closing" ELSE st
    /\ devices' =
         [dev EXCEPT
            !.closePending = @ \/ (rf.sessionRef /\ st = "connecting"),
            !.stream   = IF rf.streamRef THEN "stopped" ELSE @,
            !.inputCtx = IF rf.inputContextRef THEN "closed" ELSE @,
            !.outputCtx = IF rf.audioContextRef THEN "closed" ELSE @]
    /\ playing' = IF rf.audioContextRef THEN {} ELSE playing
    /\ refs' = NoRefs
    /\ connected' = FALSE
    /\ isTalking' = FALSE
    /\ isProcessingTool' = FALSE
    /\ disconnected' = TRUE

\* the statements of connect() that can throw before its await: the
\* constructor of the input context (126, as does getLiveClient at 123), the
\* constructor of the output context (127), and the call of getUserMedia
\* (133, navigator.mediaDevices undefined)
ThrowPoints == {1, 2, 3}

\* lines 122-133 and 254-258: connect() throws at point n; the catch shows
\* the message and calls disconnect().  At point 2 the input context of line
\* 126 exists and no ref holds it (129 not reached); at point 3 both contexts
\* exist and both refs hold them (129-130), so disconnect() closes them.
ConnectThrows(msg, n) ==
    /\ devices.inputCtx = "none"
    /\ sessionState = "idle"
    /\ ~viewClosed
    /\ ~disconnected
    /\ liveError' = ErrorState(CatchMessage(msg))
    /\ DisconnectBody(sessionState,
                      [devices EXCEPT
                          !.inputCtx  = IF n >= 2 THEN "running" ELSE @,
                          !.outputCtx = IF n = 3 THEN "running" ELSE @],
                      IF n = 3
                      THEN [refs EXCEPT !.inputContextRef = TRUE, !.audioContextRef = TRUE]
                      ELSE refs)
    /\ UNCHANGED <<appVars, reqVars, histVars, handlers, nextMsg, toolResponses,
                   viewClosed, scheduled, unended>>

\* line 133 rejects with an error whose message is msg: the catch of lines
\* 254-258
MicDenied(msg) ==
    /\ devices.stream = "pending"
    /\ liveError' = ErrorState(CatchMessage(msg))
    /\ DisconnectBody(sessionState, [devices EXCEPT !.stream = "denied"], refs)
    /\ UNCHANGED <<appVars, reqVars, histVars, handlers, nextMsg, toolResponses,
                   viewClosed, scheduled, unended>>

\* lines 133-136 and 254-258: getUserMedia resolves, the stream is kept, and
\* ai.live.connect throws: the catch shows the message and calls disconnect()
LiveConnectThrows(msg) ==
    /\ devices.stream = "pending"
    /\ liveError' = ErrorState(CatchMessage(msg))
    /\ DisconnectBody(sessionState, [devices EXCEPT !.stream = "live"],
                      [refs EXCEPT !.streamRef = TRUE])
    /\ UNCHANGED <<appVars, reqVars, histVars, handlers, nextMsg, toolResponses,
                   viewClosed, scheduled, unended>>

\* lines 160-177: onopen; a close that disconnect() left for the end of the
\* handshake (92-94) is issued right after the callback
OnOpen ==
    /\ sessionState = "connecting"
    /\ sessionState' = IF devices.closePending THEN "closing" ELSE "open"
    /\ devices' = [devices EXCEPT !.closePending = FALSE]
    /\ connected' = TRUE
    /\ refs' = [refs EXCEPT !.scriptProcessorRef = TRUE]
    /\ UNCHANGED <<appVars, reqVars, histVars, isProcessingTool, handlers, nextMsg,
                   toolResponses, isTalking, liveError, playing, viewClosed,
                   scheduled, unended, disconnected>>

\* lines 90-118: disconnect(), called when the live view closes
\* (src/unnamed/part_003:39-42 and useLive.ts:261-263)
Disconnect ==
    /\ devices.inputCtx # "none" \/ disconnected
    /\ ~viewClosed
    /\ viewClosed' = TRUE
    /\ DisconnectBody(sessionState, devices, refs)
    /\ UNCHANGED <<appVars, reqVars, histVars, handlers, nextMsg, toolResponses,
                   liveError, scheduled, unended>>

\* lines 243-245: the close event of a session the client closed (92-94);
\* onclose calls disconnect()
DeferredClose ==
    /\ sessionState = "closing"
    /\ DisconnectBody("closed", devices, refs)
    /\ UNCHANGED <<appVars, reqVars, histVars, handlers, nextMsg, toolResponses,
                   liveError, viewClosed, scheduled, unended>>

\* lines 243-245: the server closes the session
OnClose ==
    /\ sessionState = "open"
    /\ DisconnectBody("closed", devices, refs)
    /\ UNCHANGED <<appVars, reqVars, histVars, handlers, nextMsg, toolResponses,
                   liveError, viewClosed, scheduled, unended>>

\* lines 246-250: the connection fails, during the handshake, while open, or
\* after s.close() and before the close event
OnError ==
    /\ sessionState \in {"connecting", "open", "closing"}
    /\ liveError' = ErrorState("Connection failed")
    /\ DisconnectBody("closed", devices, refs)
    /\ UNCHANGED <<appVars, reqVars, histVars, handlers, nextMsg, toolResponses,
                   viewClosed, scheduled, unended>>

\* lines 236-241, and the end of the handler of message m: pl and talking are
\* the source set and isTalking the handler has produced so far
Finish(m, h, pl, talking) ==
    /\ handlers' = [handlers EXCEPT ![m] = DoneHandler]
    /\ playing' = IF h.interrupted THEN {} ELSE pl
    /\ isTalking' = IF h.interrupted THEN FALSE ELSE talking

\* lines 216-241: what the handler of message m does once it is past the
\* tool-call block, up to its next await or its end
AudioPart(m, h) ==
    IF h.audio
    THEN /\ isTalking' = TRUE                                      \* line 219
         /\ playing' = playing
         /\ handlers' = [handlers EXCEPT ![m] =
                IF refs.audioContextRef
                THEN [h EXCEPT !.pc = "decode", !.calls = << >>]   \* line 223
                ELSE DoneHandler]                                  \* line 221
    ELSE Finish(m, h, playing, isTalking)

\* lines 178-241, up to the first await: a server message arrives.  names are
\* the names of the function calls of its toolCall (hasToolCall FALSE: the
\* message carries no toolCall); hasAudio: it carries audio; interrupted: it
\* carries serverContent.interrupted.
OnMessage(hasToolCall, names, hasAudio, interrupted) ==
    LET m     == nextMsg
        calls == IF hasToolCall THEN FunctionCalls(m, names) ELSE << >>
        todo  == SkipOthers(calls)
        h     == [pc |-> "await", calls |-> todo, audio |-> hasAudio,
                  interrupted |-> interrupted]
    IN /\ sessionState = "open"
       /\ m <= MaxMsgs
       /\ hasToolCall \/ names = << >>
       /\ verifyReceived + VerifyCount(calls) <= MaxToolCalls
       /\ verifyReceived' = verifyReceived + VerifyCount(calls)
       /\ nextMsg' = m + 1
       /\ IF ~hasToolCall
          THEN /\ AudioPart(m, h)
               /\ UNCHANGED isProcessingTool
          ELSE IF todo = << >>
          THEN \* line 181 then line 213, nothing awaited in between
               /\ AudioPart(m, h)
               /\ isProcessingTool' = FALSE
          ELSE \* line 181; line 188 starts the call and suspends
               /\ handlers' = [handlers EXCEPT ![m] = h]
               /\ isProcessingTool' = TRUE
               /\ UNCHANGED <<isTalking, playing>>
       /\ UNCHANGED <<connected, sessionState, toolResponses, appVars, reqVars,
                      mergeWarnings, baseReport, completions, mergeLog,
                      liveError, refs, devices, viewClosed, scheduled, unended, disconnected>>

\* lines 188-241: the performTargetedResearch call awaited by the handler of
\* message m resolves with res; the handler runs on to its next await or to
\* its end
ResearchResolves(m, res) ==
    LET h    == handlers[m]
        fc   == Head(h.calls)
        resp == toolResponse(res)
        todo == SkipOthers(Tail(h.calls))
    IN /\ h.pc = "await"
       /\ result' = DeliverResult(result, res)
       /\ IF res # Null                        \* line 191: the callback runs
          THEN /\ completions' = Append(completions, res)
               /\ mergeWarnings' = mergeWarnings + MergeWarning(res)
               /\ mergeLog' = Append(mergeLog, [before |-> result, fragment |-> res,
                                                after |-> result', call |-> fc.id])
          ELSE UNCHANGED <<completions, mergeWarnings, mergeLog>>
       /\ IF resp.threw
          THEN /\ handlers' = [handlers EXCEPT ![m].pc = "threw"]
               /\ UNCHANGED <<toolResponses, isProcessingTool, isTalking, playing>>
          ELSE /\ toolResponses' = Append(toolResponses,
                        [id |-> fc.id, name |-> fc.name, response |-> resp])
               /\ IF todo = << >>
                  THEN /\ AudioPart(m, h)
                       /\ isProcessingTool' = FALSE
                  ELSE /\ handlers' = [handlers EXCEPT ![m].calls = todo]
                       /\ UNCHANGED <<isProcessingTool, isTalking, playing>>
       /\ UNCHANGED <<query, depth, loading, error, reqVars, connected, sessionState,
                      nextMsg, baseReport, verifyReceived,
                      liveError, refs, devices, viewClosed, scheduled, unended, disconnected>>

\* line 188: the awaited call rejects; the exception leaves the handler
ResearchRejects(m) ==
    /\ handlers[m].pc = "await"
    /\ handlers' = [handlers EXCEPT ![m].pc = "threw"]
    /\ UNCHANGED <<connected, isProcessingTool, sessionState, nextMsg, toolResponses,
                   appVars, reqVars, histVars, audioVars>>

\* lines 223-234 and 236-241: the audio of message m is decoded; its source is
\* started on the context the handler read at line 220 and joins the set
DecodeResolves(m) ==
    /\ handlers[m].pc = "decode"
    /\ scheduled' = Append(scheduled, m)
    /\ unended' = unended \cup {m}
    /\ Finish(m, handlers[m], playing \cup {m}, isTalking)
    /\ UNCHANGED <<appVars, reqVars, histVars, connected, isProcessingTool, sessionState,
                   nextMsg, toolResponses, liveError, refs, devices, viewClosed,
                   disconnected>>

\* lines 227-230: source.onended of the source of message m, which played to
\* its end or was stopped (110, 237) and is then no longer in the set
SourceEnded(m) ==
    /\ m \in unended
    /\ unended' = unended \ {m}
    /\ playing' = playing \ {m}
    /\ isTalking' = IF playing' = {} THEN FALSE ELSE isTalking
    /\ UNCHANGED <<appVars, reqVars, liveVars, histVars, liveError, refs, devices,
                   viewClosed, scheduled, disconnected>>

InitLive ==
    /\ query = "q1"
    /\ depth = "standard"
    /\ loading = FALSE
    /\ result \in BaseReports
    /\ error = Null
    /\ apiKey = "key"
    /\ requests = [r \in 1..MaxRequests |-> IdleRequest]
    /\ nextReq = 1
    /\ LiveIdle
    /\ baseReport = result

\* the merge flow of a live session: messages carry tool calls and no audio,
\* the microphone is granted, and the session ends when the user closes the
\* view, which here happens once the microphone was granted (SpecSession has
\* the other cases)
NextLive ==
    \/ Connect
    \/ MicGranted
    \/ OnOpen
    \/ (devices.stream = "live" /\ Disconnect)
    \/ DeferredClose
    \/ \E hasToolCall \in BOOLEAN, names \in CallLists :
          OnMessage(hasToolCall, names, FALSE, FALSE)
    \/ \E m \in 1..MaxMsgs, res \in Fragments : ResearchResolves(m, res)
    \/ \E m \in 1..MaxMsgs : ResearchRejects(m)

SpecLive == InitLive /\ [][NextLive]_vars

\* the whole session: audio, interruptions, a refused microphone, a session
\* closed or failed by the server; one report and one kind of fragment
SessionFragments == {ReturnValue(FragNew, Null), Null}

InitSession ==
    /\ query = "q1"
    /\ depth = "standard"
    /\ loading = FALSE
    /\ result = ReturnValue(DocClean, Null)
    /\ error = Null
    /\ apiKey = "key"
    /\ requests = [r \in 1..MaxRequests |-> IdleRequest]
    /\ nextReq = 1
    /\ LiveIdle
    /\ baseReport = result

NextSession ==
    \/ Connect
    \/ MicGranted
    \/ \E msg \in ConnectErrors, n \in ThrowPoints : ConnectThrows(msg, n)
    \/ \E msg \in ConnectErrors : MicDenied(msg)
    \/ \E msg \in ConnectErrors : LiveConnectThrows(msg)
    \/ OnOpen
    \/ Disconnect
    \/ DeferredClose
    \/ OnClose
    \/ OnError
    \/ \E hasToolCall \in BOOLEAN, names \in CallLists, hasAudio \in BOOLEAN,
          interrupted \in BOOLEAN :
          OnMessage(hasToolCall, names, hasAudio, interrupted)
    \/ \E m \in 1..MaxMsgs, res \in SessionFragments : ResearchResolves(m, res)
    \/ \E m \in 1..MaxMsgs : ResearchRejects(m)
    \/ \E m \in 1..MaxMsgs : DecodeResolves(m)
    \/ \E m \in 1..MaxMsgs : SourceEnded(m)

SpecSession == InitSession /\ [][NextSession]_vars

(***************************************************************************)
(* Claims about the report merge, checked under SpecLive.                  *)
(***************************************************************************)
UrlsDistinct(list) ==
    \A i, j \in DOMAIN list :
        i # j => NormalizeUrl(list[i].url) # NormalizeUrl(list[j].url)

SourceIds(report) == {report.sources[i].source_id : i \in DOMAIN report.sources}

\* the source_ids the claims of a report cite
CitedIds(report) ==
    UNION { {report.claims[i].sources[j].source_id : j \in DOMAIN report.claims[i].sources}
            : i \in DOMAIN report.claims }

\* the claims of the well-formed fragments of a sequence, in order
RECURSIVE ClaimsOf(_)
ClaimsOf(frags) ==
    IF frags = << >> THEN << >>
    ELSE (IF WellFormed(Head(frags)) THEN Head(frags).claims ELSE << >>)
         \o ClaimsOf(Tail(frags))

IsPrefix(p, q) == Len(p) <= Len(q) /\ SubSeq(q, 1, Len(p)) = p

\* C1: after every merge the sources list has at least as many entries as the
\* base's and no two of its entries share a normalized URL.
C1_SourcesGrowUrlsUnique ==
    \A k \in DOMAIN mergeLog :
        /\ Len(mergeLog[k].after.sources) >= Len(mergeLog[k].before.sources)
        /\ UrlsDistinct(mergeLog[k].after.sources)

\* C2: after any sequence of merges applied to a report returned by the
\* research pipeline, sources_analyzed equals the number of sources and
\* claims_extracted the number of claims.
C2_CountsMatchLists ==
    \A k \in DOMAIN mergeLog :
        LET r == mergeLog[k].after IN
        /\ r.metadata.sources_analyzed = Len(r.sources)
        /\ r.metadata.claims_extracted = Len(r.claims)

\* C3: after any merge every source_id cited by a claim of the merged report
\* is the source_id of an entry of its sources list.
C3_CitedSourcesPresent ==
    \A k \in DOMAIN mergeLog :
        CitedIds(mergeLog[k].after) \subseteq SourceIds(mergeLog[k].after)

\* C4: after any sequence of merges the source_id values of the sources list
\* are unique.
C4_SourceIdsUnique ==
    \A k \in DOMAIN mergeLog :
        LET src == mergeLog[k].after.sources IN
        \A i, j \in DOMAIN src : i # j => src[i].source_id # src[j].source_id

\* C5: the claims of the displayed report are the base's claims followed by
\* the claims of the fragments in the order their calls completed; each merge
\* starts from the report the previous one left and keeps its claims as a
\* prefix, so nothing is deduplicated, reordered, changed or lost.
C5_ClaimsAppendedInCompletionOrder ==
    /\ result.claims = baseReport.claims \o ClaimsOf(completions)
    /\ Len(mergeLog) = Len(completions)
    /\ \A k \in DOMAIN mergeLog :
        /\ mergeLog[k].fragment = completions[k]
        /\ mergeLog[k].before = (IF k = 1 THEN baseReport ELSE mergeLog[k - 1].after)
        /\ IsPrefix(mergeLog[k].before.claims, mergeLog[k].after.claims)
    /\ IsPrefix(baseReport.claims, result.claims)

\* two fragments with claims were merged, and the call that arrived later
\* completed first
C5_Witness ==
    /\ Len(mergeLog) = 2
    /\ mergeLog[1].call > mergeLog[2].call
    /\ mergeLog[1].fragment # mergeLog[2].fragment
    /\ \A k \in 1..2 : WellFormed(mergeLog[k].fragment)
                       /\ Len(mergeLog[k].fragment.claims) > 0
    /\ Len(result.claims) = Len(baseReport.claims) + 2

\* C6: merging the same fragment twice yields the sources list and the
\* sources_analyzed of merging it once, while the claims list grows by the
\* fragment's number of claims on each of the two merges.
C6_SourcesIdempotentClaimsNot ==
    \A k \in DOMAIN mergeLog :
        (/\ k + 1 \in DOMAIN mergeLog
         /\ mergeLog[k + 1].fragment = mergeLog[k].fragment
         /\ WellFormed(mergeLog[k].fragment))
        => LET f     == mergeLog[k].fragment
               base  == mergeLog[k].before
               once  == mergeLog[k].after
               twice == mergeLog[k + 1].after
           IN /\ mergeLog[k + 1].before = once
              /\ twice.sources = once.sources
              /\ twice.metadata.sources_analyzed = once.metadata.sources_analyzed
              /\ Len(once.claims) = Len(base.claims) + Len(f.claims)
              /\ Len(twice.claims) = Len(once.claims) + Len(f.claims)
              /\ twice.claims = base.claims \o f.claims \o f.claims

\* a fragment that brought a new source and a claim was merged twice in a row
C6_Witness ==
    \E k \in DOMAIN mergeLog :
        /\ k + 1 \in DOMAIN mergeLog
        /\ mergeLog[k + 1].fragment = mergeLog[k].fragment
        /\ WellFormed(mergeLog[k].fragment)
        /\ Len(mergeLog[k].fragment.claims) > 0
        /\ Len(mergeLog[k].after.sources) > Len(mergeLog[k].before.sources)

\* C7: a merge changes only claims, sources, summary.key_findings (the base's
\* findings followed by the fragment's) and the two metadata counts; every
\* other field of the result, executive_summary, confidence_overall and
\* gaps_identified among them, is the base's.
C7_MergeFrame ==
    \A k \in DOMAIN mergeLog :
        LET f     == mergeLog[k].fragment
            base  == mergeLog[k].before
            after == mergeLog[k].after
        IN WellFormed(f) =>
            /\ after.summary.executive_summary = base.summary.executive_summary
            /\ after.summary.confidence_overall = base.summary.confidence_overall
            /\ after.summary.gaps_identified = base.summary.gaps_identified
            /\ after.summary.key_findings =
                   base.summary.key_findings \o f.summary.key_findings
            /\ DOMAIN after = DOMAIN base
            /\ \A field \in DOMAIN base \ {"claims", "sources", "summary", "metadata"} :
                   after[field] = base[field]
            /\ DOMAIN after.summary = DOMAIN base.summary
            /\ DOMAIN after.metadata = DOMAIN base.metadata
            /\ \A field \in DOMAIN base.metadata \ {"sources_analyzed", "claims_extracted"} :
                   after.metadata[field] = base.metadata[field]

\* a merged fragment whose summary fields all differ from the base's
C7_Witness ==
    \E k \in DOMAIN mergeLog :
        LET f == mergeLog[k].fragment  base == mergeLog[k].before IN
        /\ WellFormed(f)
        /\ f.summary.executive_summary # base.summary.executive_summary
        /\ f.summary.gaps_identified # base.summary.gaps_identified
        /\ f.summary.confidence_overall # base.summary.confidence_overall
        /\ f.metadata.research_timestamp # base.metadata.research_timestamp
        /\ f.metadata.verification_rate # base.metadata.verification_rate
        /\ f.query # base.query
        /\ f.groundingMetadata # base.groundingMetadata
        /\ Len(f.summary.key_findings) > 0
        /\ mergeLog[k].after # base

\* C8: when the fragment handed to the merge is malformed, the step leaves
\* the displayed report unchanged in every field, records one warning, and the
\* session goes on: the handler does not throw, the tool response of the call
\* is sent, and the session stays as connected as it was.
C8_MalformedFragmentDiscarded ==
    [][ (/\ Len(mergeLog') = Len(mergeLog) + 1
         /\ ~WellFormed(mergeLog'[Len(mergeLog')].fragment))
        => /\ result' = result
           /\ mergeLog'[Len(mergeLog')].after = mergeLog'[Len(mergeLog')].before
           /\ mergeWarnings' = mergeWarnings + 1
           /\ sessionState' = sessionState
           /\ connected' = connected
           /\ \A m \in 1..MaxMsgs : handlers'[m].pc = "threw" => handlers[m].pc = "threw"
           /\ Len(toolResponses') = Len(toolResponses) + 1
           /\ toolResponses'[Len(toolResponses')].id = mergeLog'[Len(mergeLog')].call
      ]_vars

\* a malformed fragment was discarded in a connected session, its tool
\* response was sent, and a later fragment was still merged
C8_Witness ==
    /\ Len(mergeLog) = 2
    /\ ~WellFormed(mergeLog[1].fragment)
    /\ WellFormed(mergeLog[2].fragment)
    /\ mergeLog[1].after = baseReport
    /\ mergeWarnings = 1
    /\ connected
    /\ Len(toolResponses) = 2
    /\ toolResponses[1].id = mergeLog[1].call
    /\ result # baseReport

(***************************************************************************)
(* Claims about the live session                                           *)
(***************************************************************************)

\* the handler of message m waits for a performTargetedResearch call
Pending(m) == handlers[m].pc = "await"

AnyPending == \E m \in 1..MaxMsgs : Pending(m)

\* C22: fragments are handed to the merge one at a time and in completion
\* order, also while several tool events are pending: every step that touches
\* the report, the completions or the merges is the merge of exactly the
\* fragment that just completed into the report displayed at that moment.
C22_OneFragmentPerMerge ==
    [][ (result' # result \/ mergeLog' # mergeLog \/ completions' # completions)
        => /\ Len(completions') = Len(completions) + 1
           /\ Len(mergeLog') = Len(mergeLog) + 1
           /\ mergeLog'[Len(mergeLog')].fragment = completions'[Len(completions')]
           /\ mergeLog'[Len(mergeLog')].before = result
           /\ mergeLog'[Len(mergeLog')].after =
                 onDataUpdate(result, completions'[Len(completions')])
           /\ result' = mergeLog'[Len(mergeLog')].after
      ]_vars

\* the calls of two messages were pending together (the later one completed
\* first), and the report is the merge of both fragments in completion order
C22_Witness ==
    /\ Len(mergeLog) = 2
    /\ mergeLog[1].call > mergeLog[2].call
    /\ mergeLog[1].call > MaxCalls
    /\ mergeLog[2].call <= MaxCalls
    /\ result = onDataUpdate(onDataUpdate(baseReport, completions[1]), completions[2])
    /\ result # onDataUpdate(baseReport, completions[1])
    /\ baseReport # onDataUpdate(baseReport, completions[1])

\* C23: in a connected session isProcessingTool is true exactly when at least
\* one verify_new_claim call is in flight: it is not reset by the end of one
\* tool-call message while the call of another is pending, and it is false
\* once none is pending, also when a call failed.
C23_IndicatorTracksPendingCalls ==
    connected => (isProcessingTool <=> AnyPending)

\* C24: while a call is pending, the audio of every server message that
\* arrives, the message of the tool call included, goes to decoding and
\* scheduling at once, without waiting for the call.
C24_AudioNotBlockedByToolCall ==
    [][ \A m \in 1..MaxMsgs :
          (/\ handlers[m].pc = "none"
           /\ handlers'[m].pc # "none"
           /\ refs.audioContextRef
           /\ \/ handlers'[m].audio
              \/ handlers'[m].pc = "decode")
          => /\ handlers'[m].pc = "decode"
             /\ isTalking'
      ]_vars

\* everything the session holds is released and the three flags are down
Released ==
    /\ devices.stream # "live"
    /\ playing = {}
    /\ devices.inputCtx # "running"
    /\ devices.outputCtx # "running"
    /\ sessionState \notin {"connecting", "open"}
    /\ ~connected
    /\ ~isTalking
    /\ ~isProcessingTool

\* C25: when disconnect returns, in whatever state it was called (connecting,
\* connected, talking, processing), the microphone tracks are stopped, every
\* playback source is stopped and the source set is empty, both audio
\* contexts are closed, the session is closed, and connected, isTalking and
\* isProcessingTool are false.
C25_DisconnectReleasesEverything ==
    [][ (\/ Disconnect \/ OnClose \/ OnError \/ DeferredClose
         \/ \E msg \in ConnectErrors :
               \/ MicDenied(msg) \/ LiveConnectThrows(msg)
               \/ \E n \in ThrowPoints : ConnectThrows(msg, n))
        => Released' ]_vars

\* C26: the result of a call that completes after the session was
\* disconnected is not merged: no data-update callback runs and no tool
\* response is sent.
C26_NoMergeAfterDisconnect ==
    [][ (\/ Len(mergeLog') > Len(mergeLog)
         \/ Len(toolResponses') > Len(toolResponses)
         \/ result' # result)
        => ~disconnected ]_vars

\* C27: when a tool call fails or the connection drops, the session is
\* terminated and an error is surfaced, and the displayed report stays as it
\* was.
C27_FailureEndsSessionWithError ==
    [][ ((\E m \in 1..MaxMsgs : ResearchRejects(m)) \/ OnError \/ OnClose)
        => /\ sessionState' = "closed"
           /\ ~connected'
           /\ liveError' # Null
           /\ result' = result
      ]_vars

\* the ids function calls can carry
CallIds == 1..(MaxMsgs * MaxCalls)

\* the handler of some message waits for the call id
InFlightCall(id) ==
    \E m \in 1..MaxMsgs : Pending(m) /\ Head(handlers[m].calls).id = id

Answered(id) == \E k \in DOMAIN toolResponses : toolResponses[k].id = id

\* the promise of a pending performTargetedResearch call settles
SpecLiveFair ==
    /\ InitLive
    /\ [][NextLive]_vars
    /\ \A m \in 1..MaxMsgs :
          WF_vars((\E res \in Fragments : ResearchResolves(m, res)) \/ ResearchRejects(m))

\* C28: every verify_new_claim call received in a connected session is
\* eventually answered by exactly one tool response with its id and name, its
\* fragment having been handed to the callback exactly once and before that;
\* also when the research fails.
C28_EveryCallAnswered ==
    /\ [](\A k \in DOMAIN toolResponses :
            /\ toolResponses[k].name = "verify_new_claim"
            /\ \A j \in DOMAIN toolResponses :
                  toolResponses[j].id = toolResponses[k].id => j = k
            /\ Cardinality({i \in DOMAIN mergeLog :
                              mergeLog[i].call = toolResponses[k].id}) = 1)
    /\ \A id \in CallIds : InFlightCall(id) ~> Answered(id)

\* connect() has nothing left to do: the microphone answered, the handshake
\* ended, and no close waits for the handshake
ConnectSettled ==
    /\ devices.stream \notin {"none", "pending"}
    /\ sessionState # "connecting"
    /\ ~devices.closePending

\* C29: when the view was closed while connect() waited for the microphone or
\* for the handshake, then once connect()'s pending steps are over no
\* microphone stream, audio context or session is open, and connected is
\* false.
C29_NoLeakAfterEarlyDisconnect ==
    (viewClosed /\ ConnectSettled)
    => /\ devices.stream # "live"
       /\ devices.inputCtx # "running"
       /\ devices.outputCtx # "running"
       /\ sessionState # "open"
       /\ ~connected

====
